---- MODULE Spec2Model ----
(***************************************************************************)
(* Flipper (src/flipper.ts, last revision, lines 385-655): the resumable   *)
(* scrape / flip pipeline of Flipper.process(), the directory scan of      *)
(* setupDirectoryByType and the locator classification of                  *)
(* collectURILocation.  Strings that the code parses (filenames, URIs) are *)
(* sequences of one-character strings; files are tracked by how much of    *)
(* them is on disk ("absent", "partial", "complete").                      *)
(***************************************************************************)
EXTENDS Integers, Sequences, FiniteSets, TLC

\* ---------------------------------------------------------------- bounds
MaxSupply == 3      \* totalSupply() of the collection ranges over 0..MaxSupply
MaxId == 5          \* token ids that can name a file on disk: 0..MaxId
MaxRuns == 3        \* number of times the process is started

Ids == 0..MaxId
Categories == {"original", "flipped"}

\* ------------------------------------------------- JavaScript numbers
\* Number() yields NaN for a stem that is not numeric; ids are never negative,
\* so NaN is carried as a value outside the ids.
NaN == -1

\* a >= b on JavaScript numbers: false as soon as one side is NaN
JsGE(a, b) == a # NaN /\ b # NaN /\ a >= b

\* a + b on JavaScript numbers
JsAdd(a, b) == IF a = NaN \/ b = NaN THEN NaN ELSE a + b

\* ------------------------------------------------------------ strings
DigitChars == <<"0", "1", "2", "3", "4", "5", "6", "7", "8", "9">>
DigitSet == {DigitChars[i] : i \in 1..10}

DigitValue(c) == (CHOOSE i \in 1..10 : DigitChars[i] = c) - 1

\* `${tokenId}`: the decimal rendering of a non-negative integer
RECURSIVE TemplateString(_)
TemplateString(n) ==
  IF n < 10 THEN <<DigitChars[n + 1]>>
  ELSE TemplateString(n \div 10) \o <<DigitChars[(n % 10) + 1]>>

JsonExt == <<".", "j", "s", "o", "n">>
ImagesEntry == <<"i", "m", "a", "g", "e", "s">>

\* `${baseFolder}/${tokenId}.json`, relative to the category root
MetadataName(id) == TemplateString(id) \o JsonExt

\* filename.endsWith(suffix)
EndsWith(s, suffix) ==
  /\ Len(s) >= Len(suffix)
  /\ SubSeq(s, Len(s) - Len(suffix) + 1, Len(s)) = suffix

\* filename.slice(0, -5)
SliceStem(s) == SubSeq(s, 1, Len(s) - 5)

RECURSIVE DecimalValue(_)
DecimalValue(s) ==
  IF Len(s) = 0 THEN 0
  ELSE 10 * DecimalValue(SubSeq(s, 1, Len(s) - 1)) + DigitValue(s[Len(s)])

\* Number(stem) on the stems that occur here (digits and letters, no sign,
\* blank, exponent or radix prefix): "" is 0, a run of digits is its decimal
\* value, anything else is NaN.
Number(s) ==
  IF \A i \in 1..Len(s) : s[i] \in DigitSet THEN DecimalValue(s) ELSE NaN

\* Math.max(...tokenIds) of a non-empty collection: NaN if any element is NaN
MathMax(S) ==
  IF NaN \in S THEN NaN ELSE CHOOSE m \in S : \A x \in S : x <= m

\* ------------------------------------------------------ locator resolver
UpperChars ==
  {"A", "B", "C", "D", "E", "F", "G", "H", "I", "J", "K", "L", "M",
   "N", "O", "P", "Q", "R", "S", "T", "U", "V", "W", "X", "Y", "Z"}
LowerChars ==
  {"a", "b", "c", "d", "e", "f", "g", "h", "i", "j", "k", "l", "m",
   "n", "o", "p", "q", "r", "s", "t", "u", "v", "w", "x", "y", "z"}

\* the class [1-9A-Za-z]
CidChars == (DigitSet \ {"0"}) \cup UpperChars \cup LowerChars

\* the class [^OIl]
NotOIl(c) == c \notin {"O", "I", "l"}

\* Qm[1-9A-Za-z]{43}[^OIl] matches s from position i
CidMatchesAt(s, i) ==
  /\ i + 45 <= Len(s)
  /\ s[i] = "Q"
  /\ s[i + 1] = "m"
  /\ \A k \in 2..44 : s[i + k] \in CidChars
  /\ NotOIl(s[i + 45])

\* last position of the run of digits of s that starts at j (j - 1 if none)
RECURSIVE DigitRunEnd(_, _)
DigitRunEnd(s, j) ==
  IF j <= Len(s) /\ s[j] \in DigitSet THEN DigitRunEnd(s, j + 1) ELSE j - 1

\* the match cut after its 46 characters
CidMatchEndWithoutSuffix(s, i) == i + 45

\* last position of the match that starts at i, with the optional (/[0-9]+)
CidMatchEnd(s, i) ==
  LET j == i + 46 IN
    IF j + 1 <= Len(s) /\ s[j] = "/" /\ s[j + 1] \in DigitSet
    THEN DigitRunEnd(s, j + 1)
    ELSE i + 45

\* URI.match(IPFSRegex): the leftmost match, as [found, text]
IPFSRegexMatch(s) ==
  LET starts == {i \in 1..Len(s) : CidMatchesAt(s, i)} IN
    IF starts = {} THEN [found |-> FALSE, text |-> <<>>]
    ELSE LET i == CHOOSE m \in starts : \A x \in starts : m <= x
         IN [found |-> TRUE, text |-> SubSeq(s, i, CidMatchEnd(s, i))]

\* URI.includes(part)
Includes(s, part) ==
  \E i \in 1..(Len(s) - Len(part) + 1) :
    SubSeq(s, i, i + Len(part) - 1) = part

HttpsMarker == <<"h", "t", "t", "p", "s", ":", "/", "/">>

\* an unknown URI handed on as a location-addressed one
collectURILocationLenient(URI) ==
  LET isIPFS == IPFSRegexMatch(URI) IN
    IF isIPFS.found THEN [loc |-> "IPFS", URI |-> isIPFS.text]
    ELSE [loc |-> "HTTPS", URI |-> URI]

\* collectURILocation: loc "EXIT" stands for the process.exit(1) of an
\* unknown URI, which returns nothing to the caller
collectURILocation(URI) ==
  LET isIPFS == IPFSRegexMatch(URI) IN
    IF isIPFS.found THEN [loc |-> "IPFS", URI |-> isIPFS.text]
    ELSE IF Includes(URI, HttpsMarker) THEN [loc |-> "HTTPS", URI |-> URI]
    ELSE [loc |-> "EXIT", URI |-> URI]

\* ------------------------------------------------------- upstream data
\* The strings the contract and the metadata servers hand out.
SampleCid == <<"Q", "m">> \o [k \in 1..43 |-> "a"] \o <<"b">>

IpfsURI == <<"i", "p", "f", "s", ":", "/", "/">> \o SampleCid \o <<"/", "1">>
HttpsURI == HttpsMarker \o <<"x", "/", "1">>
FtpURI == <<"f", "t", "p", ":", "/", "/", "x">>

\* a gateway URL of the same content: both "https://" and a CID
GatewayURI ==
  HttpsMarker \o <<"g", "w", "/", "i", "p", "f", "s", "/">> \o SampleCid

\* "Qm" and 43 further characters, then the end of the string
ShortCidURI ==
  <<"i", "p", "f", "s", ":", "/", "/", "Q", "m">> \o [k \in 1..43 |-> "a"]

\* "Qm" and 43 further characters, then "/7"
ShortCidSuffixURI == HttpsMarker \o <<"Q", "m">> \o [k \in 1..43 |-> "a"]
                       \o <<"/", "7">>

\* an https URL with "Qm" and 44 characters that are not all base58 (an O)
CapitalOURI ==
  HttpsMarker \o <<"x", "/", "Q", "m", "O">> \o [k \in 1..42 |-> "a"]
    \o <<"b", "/", "1", "2", "x">>

\* "Qm" and 44 further characters of which the last one is an l
LastEllURI ==
  <<"i", "p", "f", "s", ":", "/", "/", "Q", "m">> \o [k \in 1..43 |-> "a"]
    \o <<"l">>

URIText(name) ==
  CASE name = "ipfs" -> IpfsURI
    [] name = "https" -> HttpsURI
    [] name = "ftp" -> FtpURI
    [] name = "gateway" -> GatewayURI
    [] name = "short" -> ShortCidURI
    [] name = "shortSuffix" -> ShortCidSuffixURI
    [] name = "capitalO" -> CapitalOURI
    [] name = "lastEll" -> LastEllURI

\* the gateway the process is configured with (IPFS in .env)
IPFSGateway == <<"h", "t", "t", "p", ":", "/", "/", "g", "w", "/">>

\* what tokenURI(id) and the metadata fetched from it can be: the locator
\* of the item and the "image" field of its metadata ("none": no such field)
ItemKinds ==
  {[uri |-> u, image |-> i] : u \in {"ipfs", "https"},
                              i \in {"ipfs", "https", "none"}}
    \cup {[uri |-> "ftp", image |-> "none"], [uri |-> "ipfs", image |-> "ftp"]}

Unknown == [uri |-> "unknown", image |-> "unknown"]

\* ---------------------------------------------------------------- state
VARIABLES
  totalSupply,        \* contract.totalSupply(), fixed for the collection
  tokenData,          \* per id: what the contract and its metadata hold
  dirs,               \* per category: "none", "root" (no images/), "full"
  meta,               \* per category and id: state of <id>.json
  img,                \* per category and id: state of images/<id>.png
  stray,              \* per category: other filenames under the root
  pc,                 \* where the process stands; "idle": no process
  collectionSupply,   \* this.collectionSupply
  lastScrapedToken,   \* this.lastScrapedToken
  lastFlippedToken,   \* this.lastFlippedToken
  tokenId,            \* argument of the running scrapeOriginalToken call
  lastFlipped,        \* argument of the running postProcess call
  pending,            \* ids whose flipped image write is queued
  writing,            \* ids whose flipped image write has begun
  runs,               \* how many times the process was started
  exitReason,         \* how the last process ended
  uriCalls,           \* per id: tokenURI calls issued by this process
  httpCalls,          \* per id: HTTP requests issued by this process
  request,            \* target of the last HTTP request of this process
  completedRun,       \* the run whose fetch stage first finished (0: none)
  answer,             \* what the operator answered in this run
  imagesHash,         \* the hash Phase A returned (<<>>: none in hand)
  metadataBundle,     \* the files being submitted in Phase B (<<>>: none)
  flips               \* per id: postProcess iterations entered by this process

diskVars == <<dirs, meta, img, stray>>
chainVars == <<totalSupply, tokenData>>
fieldVars == <<collectionSupply, lastScrapedToken, lastFlippedToken>>
logVars == <<uriCalls, httpCalls, request, flips>>
publishVars == <<answer, imagesHash, metadataBundle>>
vars == <<totalSupply, tokenData, dirs, meta, img, stray, pc,
          collectionSupply, lastScrapedToken, lastFlippedToken, tokenId,
          lastFlipped, pending, writing, runs, exitReason, uriCalls,
          httpCalls, request, flips, completedRun, answer, imagesHash,
          metadataBundle>>

FileStates == {"absent", "partial", "complete"}
NoFiles == [c \in Categories |-> [i \in Ids |-> "absent"]]
NoCalls == [i \in Ids |-> 0]

\* --------------------------------------------- directory state tracker
\* fs.readdirSync(metadataFolder): the names directly under the root
ReadDir(c) ==
  {MetadataName(i) : i \in {j \in Ids : meta[c][j] # "absent"}}
    \cup stray[c]
    \cup (IF dirs[c] = "full" THEN {ImagesEntry} ELSE {})

\* the flatMap over the filenames (as a set: only emptiness and the maximum
\* of the result are used)
TokenIdsOf(folderFilenames) ==
  {Number(SliceStem(f)) : f \in {g \in folderFilenames : EndsWith(g, JsonExt)}}

\* a tracker that finds nothing done, whatever the directory holds
setupDirectoryByTypeFresh(imagesExist, folderFilenames) == 0

\* the value setupDirectoryByType returns
setupDirectoryByType(imagesExist, folderFilenames) ==
  IF ~imagesExist THEN 0
  ELSE LET tokenIds == TokenIdsOf(folderFilenames) IN
         IF tokenIds # {} THEN MathMax(tokenIds) ELSE 0

\* what a call of setupDirectoryByType(c) would return on the present disk
Watermark(c) == setupDirectoryByType(dirs[c] = "full", ReadDir(c))

\* fs.mkdirSync(images, {recursive: true}) when images/ is missing
DirsAfterSetup(c) == [dirs EXCEPT ![c] = "full"]

\* --------------------------------------------------------------- process
\* a stage that starts again at the resume point itself
StartCursorAtResumePoint(resumePoint) == resumePoint

\* a stage that passes over the item after the resume point
StartCursorSkipping(resumePoint) == JsAdd(resumePoint, 2)

\* the cursor a stage starts from: scrapeOriginalToken(lastScrapedToken + 1),
\* postProcess(lastFlippedToken + 1)
StartCursor(resumePoint) == JsAdd(resumePoint, 1)

\* a fetch stage that stops one id late (> for >=)
ScrapeFinishedOneLate(id) == id # NaN /\ id > collectionSupply

\* every request sent through the gateway, whatever the location
FetchTargetThroughGateway(located) == IPFSGateway \o located.URI

\* the two switches on loc: gateway + formatted URI for IPFS, the URI as it
\* is for HTTPS
FetchTarget(located) ==
  IF located.loc = "IPFS" THEN IPFSGateway \o located.URI ELSE located.URI

\* scrapeOriginalToken: tokenId >= this.collectionSupply
ScrapeFinished(id) == JsGE(id, collectionSupply)

\* postProcess: lastFlipped >= this.lastScrapedToken
FlipFinished(id) == JsGE(id, lastScrapedToken)

Init ==
  /\ totalSupply \in 0..MaxSupply
  /\ tokenData = [i \in Ids |-> Unknown]
  /\ dirs = [c \in Categories |-> "none"]
  /\ meta = NoFiles
  /\ img = NoFiles
  /\ stray = [c \in Categories |-> {}]
  /\ pc = "idle"
  /\ collectionSupply = 0
  /\ lastScrapedToken = 0
  /\ lastFlippedToken = 0
  /\ tokenId = 0
  /\ lastFlipped = 0
  /\ pending = {}
  /\ writing = {}
  /\ runs = 0
  /\ exitReason = "none"
  /\ uriCalls = NoCalls
  /\ httpCalls = NoCalls
  /\ request = <<>>
  /\ completedRun = 0
  /\ answer = "none"
  /\ imagesHash = <<>>
  /\ metadataBundle = <<>>
  /\ flips = NoCalls

\* the process ends (killed, crashed or exited): whatever was being written
\* stays as it is, writes not yet begun never happen
Die(reason) ==
  /\ pc' = "idle"
  /\ exitReason' = reason
  /\ pending' = {}
  /\ writing' = {}

\* npm run start: a new process, a new Flipper with its field initialisers
Start ==
  /\ pc \in {"idle", "done"}
  /\ pending = {} /\ writing = {}
  /\ runs < MaxRuns
  /\ runs' = runs + 1
  /\ pc' = "collect"
  /\ exitReason' = "running"
  /\ collectionSupply' = 0
  /\ lastScrapedToken' = 0
  /\ lastFlippedToken' = 0
  /\ tokenId' = 0
  /\ lastFlipped' = 0
  /\ uriCalls' = NoCalls
  /\ httpCalls' = NoCalls
  /\ request' = <<>>
  /\ flips' = NoCalls
  /\ answer' = "none"
  /\ imagesHash' = <<>>
  /\ metadataBundle' = <<>>
  /\ UNCHANGED <<chainVars, diskVars, pending, writing, completedRun>>

\* collectCollectionDetails: contract.name() resolves
NameReturn ==
  /\ pc = "collect"
  /\ pc' = "awaitSupply"
  /\ UNCHANGED <<chainVars, diskVars, fieldVars, tokenId, lastFlipped,
                 pending, writing, runs, completedRun, publishVars,
                 exitReason, logVars>>

\* collectCollectionDetails: contract.totalSupply() resolves
SupplyReturn ==
  /\ pc = "awaitSupply"
  /\ collectionSupply' = totalSupply
  /\ pc' = "setupOriginal"
  /\ UNCHANGED <<chainVars, diskVars, lastScrapedToken, lastFlippedToken,
                 tokenId, lastFlipped, pending, writing, runs, completedRun,
                 publishVars, exitReason, logVars>>

\* a rejected read of the contract that is caught and passed over
CallFailSwallowed ==
  /\ pc \in {"collect", "awaitSupply"}
  /\ pc' = "setupOriginal"
  /\ UNCHANGED <<chainVars, diskVars, fieldVars, tokenId, lastFlipped,
                 pending, writing, runs, completedRun, publishVars,
                 exitReason, logVars>>

\* an awaited contract call or HTTP request rejects: nothing catches it
CallFail ==
  /\ pc \in {"collect", "awaitSupply", "awaitURI", "awaitMetadata",
             "awaitImage"}
  /\ Die("failed")
  /\ UNCHANGED <<chainVars, diskVars, fieldVars, tokenId, lastFlipped, runs,
                 completedRun, publishVars, logVars>>

\* process: this.lastScrapedToken = setupDirectoryByType("original")
SetupOriginal ==
  /\ pc = "setupOriginal"
  /\ lastScrapedToken' = Watermark("original")
  /\ dirs' = DirsAfterSetup("original")
  /\ pc' = "setupFlipped"
  /\ UNCHANGED <<chainVars, meta, img, stray, collectionSupply,
                 lastFlippedToken, tokenId, lastFlipped, pending, writing,
                 runs, completedRun, publishVars, exitReason, logVars>>

\* process: this.lastFlippedToken = setupDirectoryByType("flipped"), then
\* the call scrapeOriginalToken(this.lastScrapedToken + 1)
SetupFlipped ==
  /\ pc = "setupFlipped"
  /\ lastFlippedToken' = Watermark("flipped")
  /\ dirs' = DirsAfterSetup("flipped")
  /\ tokenId' = StartCursor(lastScrapedToken)
  /\ pc' = "scrape"
  /\ UNCHANGED <<chainVars, meta, img, stray, collectionSupply,
                 lastScrapedToken, lastFlipped, pending, writing, runs,
                 completedRun, publishVars, exitReason, logVars>>

\* ------------------------------------------------- original fetch stage
\* scrapeOriginalToken(tokenId), tokenId >= collectionSupply: the stage is
\* over and process goes on to postProcess(this.lastFlippedToken + 1)
ScrapeFinish ==
  /\ pc = "scrape"
  /\ ScrapeFinished(tokenId)
  /\ lastFlipped' = StartCursor(lastFlippedToken)
  /\ pc' = "flip"
  /\ completedRun' = IF completedRun = 0 THEN runs ELSE completedRun
  /\ UNCHANGED <<chainVars, diskVars, fieldVars, tokenId, pending, writing,
                 runs, publishVars, exitReason, logVars>>

\* scrapeOriginalToken(tokenId) otherwise: contract.tokenURI(tokenId)
ScrapeCallTokenURI ==
  /\ pc = "scrape"
  /\ ~ScrapeFinished(tokenId)
  /\ tokenId # NaN
  /\ uriCalls' = [uriCalls EXCEPT ![tokenId] = @ + 1]
  /\ pc' = "awaitURI"
  /\ UNCHANGED <<chainVars, diskVars, fieldVars, tokenId, lastFlipped,
                 pending, writing, runs, completedRun, publishVars,
                 exitReason, httpCalls, request, flips>>

\* tokenURI resolves; collectURILocation(URI) exits the process on an
\* unknown URI, else the metadata is requested over HTTP.  The contract
\* answers the same for an id every time it is asked.
TokenURIReturn ==
  /\ pc = "awaitURI"
  /\ \E k \in (IF tokenData[tokenId] = Unknown THEN ItemKinds
               ELSE {tokenData[tokenId]}) :
       /\ tokenData' = [tokenData EXCEPT ![tokenId] = k]
       /\ LET located == collectURILocation(URIText(k.uri)) IN
            IF located.loc = "EXIT"
            THEN /\ Die("unsupported")
                 /\ UNCHANGED <<httpCalls, request>>
            ELSE /\ pc' = "awaitMetadata"
                 /\ httpCalls' = [httpCalls EXCEPT ![tokenId] = @ + 1]
                 /\ request' = FetchTarget(located)
                 /\ UNCHANGED <<pending, writing, exitReason>>
  /\ UNCHANGED <<totalSupply, diskVars, fieldVars, tokenId, lastFlipped, runs,
                 completedRun, publishVars, uriCalls, flips>>

\* getHTTPMetadata resolves; fs.writeFileSync(tokenMetadataPath, ...) opens
\* <id>.json under its final name, truncated, and starts writing
MetadataReturn ==
  /\ pc = "awaitMetadata"
  /\ meta' = [meta EXCEPT !["original"][tokenId] = "partial"]
  /\ pc' = "writingMetadata"
  /\ UNCHANGED <<chainVars, dirs, img, stray, fieldVars, tokenId, lastFlipped,
                 pending, writing, runs, completedRun, publishVars,
                 exitReason, logVars>>

\* writeFileSync returns; then, if metadata["image"]: collectURILocation of
\* the image exits on an unknown URI, else the image is requested; without
\* an image field the next token follows at once
MetadataWritten ==
  /\ pc = "writingMetadata"
  /\ meta' = [meta EXCEPT !["original"][tokenId] = "complete"]
  /\ LET image == tokenData[tokenId].image IN
       IF image = "none"
       THEN /\ tokenId' = tokenId + 1
            /\ pc' = "scrape"
            /\ UNCHANGED <<pending, writing, exitReason, httpCalls, request>>
       ELSE LET located == collectURILocation(URIText(image)) IN
         IF located.loc = "EXIT"
         THEN /\ Die("unsupported")
              /\ UNCHANGED <<tokenId, httpCalls, request>>
         ELSE /\ pc' = "awaitImage"
              /\ httpCalls' = [httpCalls EXCEPT ![tokenId] = @ + 1]
              /\ request' = FetchTarget(located)
              /\ UNCHANGED <<tokenId, pending, writing, exitReason>>
  /\ UNCHANGED <<chainVars, dirs, img, stray, fieldVars, lastFlipped, runs,
                 completedRun, publishVars, uriCalls, flips>>

\* getAndSaveHTTPImage: the response arrives, fs.createWriteStream(path)
\* creates images/<id>.png under its final name and the body is piped in
ImageResponse ==
  /\ pc = "awaitImage"
  /\ img' = [img EXCEPT !["original"][tokenId] = "partial"]
  /\ pc' = "streamingImage"
  /\ UNCHANGED <<chainVars, dirs, meta, stray, fieldVars, tokenId,
                 lastFlipped, pending, writing, runs, completedRun,
                 publishVars, exitReason, logVars>>

\* the writer emits "finish"; scrapeOriginalToken(tokenId + 1)
ImageFinish ==
  /\ pc = "streamingImage"
  /\ img' = [img EXCEPT !["original"][tokenId] = "complete"]
  /\ tokenId' = tokenId + 1
  /\ pc' = "scrape"
  /\ UNCHANGED <<chainVars, dirs, meta, stray, fieldVars, lastFlipped,
                 pending, writing, runs, completedRun, publishVars,
                 exitReason, logVars>>

\* the writer emits "error": the promise rejects, nothing catches it
ImageError ==
  /\ pc = "streamingImage"
  /\ Die("failed")
  /\ UNCHANGED <<chainVars, diskVars, fieldVars, tokenId, lastFlipped, runs,
                 completedRun, publishVars, logVars>>

\* ------------------------------------------------------ transform stage
\* postProcess(lastFlipped), lastFlipped >= lastScrapedToken: the stage is
\* over and process goes on to promptVerifyContinue
FlipFinish ==
  /\ pc = "flip"
  /\ FlipFinished(lastFlipped)
  /\ pc' = "prompt"
  /\ UNCHANGED <<chainVars, diskVars, fieldVars, tokenId, lastFlipped,
                 pending, writing, runs, completedRun, publishVars,
                 exitReason, logVars>>

\* postProcess(lastFlipped) otherwise: fs.copyFileSync(src, dest) throws if
\* the source is missing, else opens dest under its final name
FlipCopyBegin ==
  /\ pc = "flip"
  /\ ~FlipFinished(lastFlipped)
  /\ flips' = [flips EXCEPT ![lastFlipped] = @ + 1]
  /\ IF meta["original"][lastFlipped] = "absent"
     THEN /\ Die("failed")
          /\ UNCHANGED meta
     ELSE /\ meta' = [meta EXCEPT !["flipped"][lastFlipped] = "partial"]
          /\ pc' = "copying"
          /\ UNCHANGED <<pending, writing, exitReason>>
  /\ UNCHANGED <<chainVars, dirs, img, stray, fieldVars, tokenId, lastFlipped,
                 runs, completedRun, publishVars, uriCalls, httpCalls,
                 request>>

\* copyFileSync returns: dest holds what src holds; Jimp.read(src image)
FlipCopyDone ==
  /\ pc = "copying"
  /\ meta' = [meta EXCEPT !["flipped"][lastFlipped] =
                            meta["original"][lastFlipped]]
  /\ pc' = "readingImage"
  /\ UNCHANGED <<chainVars, dirs, img, stray, fieldVars, tokenId, lastFlipped,
                 pending, writing, runs, completedRun, publishVars,
                 exitReason, logVars>>

\* Jimp.read resolves on a whole image and rejects on a missing or truncated
\* one; image.flip(true, false).write(dest) only queues the write and is not
\* awaited; postProcess(lastFlipped + 1)
FlipImageRead ==
  /\ pc = "readingImage"
  /\ IF img["original"][lastFlipped] = "complete"
     THEN /\ pending' = pending \cup {lastFlipped}
          /\ lastFlipped' = lastFlipped + 1
          /\ pc' = "flip"
          /\ UNCHANGED <<writing, exitReason>>
     ELSE /\ Die("failed")
          /\ UNCHANGED lastFlipped
  /\ UNCHANGED <<chainVars, diskVars, fieldVars, tokenId, runs, completedRun,
                 publishVars, logVars>>

\* a queued flipped image write opens images/<id>.png under its final name
FlipWriteBegin(id) ==
  /\ id \in pending
  /\ pending' = pending \ {id}
  /\ writing' = writing \cup {id}
  /\ img' = [img EXCEPT !["flipped"][id] = "partial"]
  /\ UNCHANGED <<chainVars, dirs, meta, stray, pc, fieldVars, tokenId,
                 lastFlipped, runs, completedRun, publishVars, exitReason,
                 logVars>>

\* a flipped image write completes
FlipWriteEnd(id) ==
  /\ id \in writing
  /\ writing' = writing \ {id}
  /\ img' = [img EXCEPT !["flipped"][id] = "complete"]
  /\ UNCHANGED <<chainVars, dirs, meta, stray, pc, fieldVars, tokenId,
                 lastFlipped, pending, runs, completedRun, publishVars,
                 exitReason, logVars>>

\* ------------------------------------------------------------ human gate
\* an answer that lets the run go on whatever it is
DeclinedNever(execute) == FALSE

\* promptVerifyContinue: if (!execute)
Declined(execute) == ~execute

\* the canonical reference to the image of id under the hash h:
\* cas://<h>/<id>.png
ImageRef(h, id) ==
  <<"c", "a", "s", ":", "/", "/">> \o h \o <<"/">> \o TemplateString(id)
    \o <<".", "p", "n", "g">>

\* a metadata file of which no field is rewritten
RewriteNothing(json, h, id) == json

\* a rewrite that puts the new reference in front of the old image field
RewritePrepending(json, h, id) ==
  [json EXCEPT !.image = ImageRef(h, id) \o json.image]

\* the Phase B rewrite of one parsed metadata file
RewriteImage(json, h, id) == [json EXCEPT !.image = ImageRef(h, id)]

\* the parsed JSON of flipped/<id>.json, a copy of what the item's locator
\* served (image <<>>: no image field)
MetadataOf(id) ==
  [name |-> TemplateString(id),
   image |-> IF tokenData[id].image = "none" THEN <<>>
             ELSE URIText(tokenData[id].image)]

\* the content hashes the pinning service may hand back
Hashes == {<<"H", "1">>, <<"H", "2">>}

\* the metadata files under flipped/
FlippedMetadataIds == {id \in Ids : meta["flipped"][id] # "absent"}

\* process after promptVerifyContinue has returned: the Publish Stage, which
\* is skipped when no pinning credential is configured (process() returns,
\* the process lives on until its queued writes are through) and otherwise
\* submits the images under flipped/images
GoOnToPublish ==
  /\ \/ pc' = "done" /\ exitReason' = "clean"
     \/ pc' = "publishImages" /\ exitReason' = exitReason
  /\ UNCHANGED <<pending, writing>>

\* promptVerifyContinue: the operator answers execute, process.exit(1) if
\* the answer is declined
PromptAnswered(execute) ==
  /\ answer' = IF execute THEN "yes" ELSE "no"
  /\ IF Declined(execute) THEN Die("declined") ELSE GoOnToPublish
  /\ UNCHANGED <<chainVars, diskVars, fieldVars, tokenId, lastFlipped, runs,
                 completedRun, imagesHash, metadataBundle, logVars>>

\* the operator answers true
PromptContinue ==
  /\ pc = "prompt"
  /\ PromptAnswered(TRUE)

\* the operator answers false
PromptDecline ==
  /\ pc = "prompt"
  /\ PromptAnswered(FALSE)

\* ---------------------------------------------------------- publish stage
\* Phase A returns imagesHash; Phase B parses every metadata file under
\* flipped/ (a truncated one does not parse), rewrites its image field and
\* submits the bundle
PublishImagesReturn ==
  /\ pc = "publishImages"
  /\ \E h \in Hashes :
       IF \E id \in FlippedMetadataIds : meta["flipped"][id] = "partial"
       THEN /\ Die("failed")
            /\ UNCHANGED <<imagesHash, metadataBundle>>
       ELSE /\ imagesHash' = h
            /\ metadataBundle' =
                 <<[id \in FlippedMetadataIds |->
                      RewriteImage(MetadataOf(id), h, id)]>>
            /\ pc' = "publishMetadata"
            /\ UNCHANGED <<pending, writing, exitReason>>
  /\ UNCHANGED <<chainVars, diskVars, fieldVars, tokenId, lastFlipped, runs,
                 completedRun, answer, logVars>>

\* Phase B returns metadataHash: the stage is over and process() returns
PublishMetadataReturn ==
  /\ pc = "publishMetadata"
  /\ pc' = "done"
  /\ exitReason' = "clean"
  /\ imagesHash' = <<>>
  /\ metadataBundle' = <<>>
  /\ UNCHANGED <<chainVars, diskVars, fieldVars, tokenId, lastFlipped,
                 pending, writing, runs, completedRun, answer, logVars>>

\* the pinning service refuses or cannot be reached
PublishFail ==
  /\ pc \in {"publishImages", "publishMetadata"}
  /\ Die("failed")
  /\ imagesHash' = <<>>
  /\ metadataBundle' = <<>>
  /\ UNCHANGED <<chainVars, diskVars, fieldVars, tokenId, lastFlipped, runs,
                 completedRun, answer, logVars>>

\* the process is killed from outside, at any point of its life
Kill ==
  /\ pc # "idle"
  /\ pc = "done" => (pending \cup writing) # {}
  /\ Die("killed")
  /\ imagesHash' = <<>>
  /\ metadataBundle' = <<>>
  /\ UNCHANGED <<chainVars, diskVars, fieldVars, tokenId, lastFlipped, runs,
                 completedRun, answer, logVars>>

Next ==
  \/ Start
  \/ NameReturn
  \/ SupplyReturn
  \/ CallFail
  \/ SetupOriginal
  \/ SetupFlipped
  \/ ScrapeFinish
  \/ ScrapeCallTokenURI
  \/ TokenURIReturn
  \/ MetadataReturn
  \/ MetadataWritten
  \/ ImageResponse
  \/ ImageFinish
  \/ ImageError
  \/ FlipFinish
  \/ FlipCopyBegin
  \/ FlipCopyDone
  \/ FlipImageRead
  \/ \E id \in Ids : FlipWriteBegin(id)
  \/ \E id \in Ids : FlipWriteEnd(id)
  \/ PromptContinue
  \/ PromptDecline
  \/ PublishImagesReturn
  \/ PublishMetadataReturn
  \/ PublishFail
  \/ Kill

Spec == Init /\ [][Next]_vars

\* The same process where every call and every stream succeeds: a process
\* ends early only by a kill, an unknown URI or a declined prompt.
NextKillsOnly ==
  \/ Start
  \/ NameReturn
  \/ SupplyReturn
  \/ SetupOriginal
  \/ SetupFlipped
  \/ ScrapeFinish
  \/ ScrapeCallTokenURI
  \/ TokenURIReturn
  \/ MetadataReturn
  \/ MetadataWritten
  \/ ImageResponse
  \/ ImageFinish
  \/ FlipFinish
  \/ FlipCopyBegin
  \/ FlipCopyDone
  \/ FlipImageRead
  \/ \E id \in Ids : FlipWriteBegin(id)
  \/ \E id \in Ids : FlipWriteEnd(id)
  \/ PromptContinue
  \/ PromptDecline
  \/ PublishImagesReturn
  \/ PublishMetadataReturn
  \/ Kill

SpecKillsOnly == Init /\ [][NextKillsOnly]_vars

\* ---------------------------------------------------------------------
\* The directory state tracker on arbitrary directories: the process has
\* read the collection details and is about to call setupDirectoryByType;
\* one category holds any mix of metadata files and other names, with or
\* without its images subdirectory.
StrayNames ==
  { <<"a", "b", "c">> \o JsonExt,
    <<"0", "7">> \o JsonExt,
    <<"9", ".", "p", "n", "g">> }

InitTracker ==
  /\ totalSupply \in 0..MaxSupply
  /\ tokenData = [i \in Ids |-> Unknown]
  /\ \E c \in Categories, present \in SUBSET Ids, names \in SUBSET StrayNames,
        d \in {"none", "root", "full"} :
       /\ d = "none" => (present = {} /\ names = {})
       /\ dirs = [x \in Categories |-> IF x = c THEN d ELSE "none"]
       /\ meta = [x \in Categories |-> [i \in Ids |->
                    IF x = c /\ i \in present THEN "complete" ELSE "absent"]]
       /\ stray = [x \in Categories |-> IF x = c THEN names ELSE {}]
  /\ img = NoFiles
  /\ pc = "setupOriginal"
  /\ collectionSupply = totalSupply
  /\ lastScrapedToken = 0
  /\ lastFlippedToken = 0
  /\ tokenId = 0
  /\ lastFlipped = 0
  /\ pending = {}
  /\ writing = {}
  /\ runs = 1
  /\ exitReason = "running"
  /\ uriCalls = NoCalls
  /\ httpCalls = NoCalls
  /\ request = <<>>
  /\ completedRun = 0
  /\ answer = "none"
  /\ imagesHash = <<>>
  /\ metadataBundle = <<>>
  /\ flips = NoCalls

NextTracker ==
  \/ SetupOriginal
  \/ SetupFlipped

SpecTracker == InitTracker /\ [][NextTracker]_vars

\* ------------------------------------------------ the resolver on its own
\* The fetch of one item whose token URI and image field are drawn from all
\* the sample strings: the two calls of collectURILocation and what the
\* process does with their results.
ResolverNames ==
  {"ipfs", "https", "ftp", "gateway", "short", "shortSuffix", "capitalO",
   "lastEll"}

ResolverKinds ==
  {[uri |-> u, image |-> i] : u \in ResolverNames,
                              i \in ResolverNames \cup {"none"}}

InitResolver ==
  /\ totalSupply = 2
  /\ \E k \in ResolverKinds :
       tokenData = [i \in Ids |-> IF i = 1 THEN k ELSE Unknown]
  /\ dirs = [c \in Categories |-> "full"]
  /\ meta = NoFiles
  /\ img = NoFiles
  /\ stray = [c \in Categories |-> {}]
  /\ pc = "scrape"
  /\ collectionSupply = totalSupply
  /\ lastScrapedToken = 0
  /\ lastFlippedToken = 0
  /\ tokenId = 1
  /\ lastFlipped = 0
  /\ pending = {}
  /\ writing = {}
  /\ runs = 1
  /\ exitReason = "running"
  /\ uriCalls = NoCalls
  /\ httpCalls = NoCalls
  /\ request = <<>>
  /\ completedRun = 0
  /\ answer = "none"
  /\ imagesHash = <<>>
  /\ metadataBundle = <<>>
  /\ flips = NoCalls

NextResolver ==
  \/ ScrapeCallTokenURI
  \/ TokenURIReturn
  \/ MetadataReturn
  \/ MetadataWritten

SpecResolver == InitResolver /\ [][NextResolver]_vars

\* ------------------------------------------------- the publish stage alone
\* The run is at the gate: original/ holds the items 1..w of a collection of
\* w + 1, all fetched by earlier runs, flipped/ holds what the Transform
\* Stage makes of them (the metadata of 1..w-1, the image of those that have
\* one), and the items are drawn from all the kinds that can be fetched.
MaxWatermark == 3

PublishKinds ==
  {[uri |-> u, image |-> i] : u \in {"ipfs", "https"},
                              i \in {"ipfs", "https", "none"}}

InitPublish ==
  \E w \in 1..MaxWatermark, data \in [1..MaxWatermark -> PublishKinds] :
    LET fetched == 1..w
        flipped == 1..(w - 1)
        imageOf(i) == data[i].image
        imageless == {i \in flipped : imageOf(i) = "none"}
    IN
      /\ totalSupply = w + 1
      /\ tokenData = [i \in Ids |-> IF i \in fetched THEN data[i] ELSE Unknown]
      /\ dirs = [c \in Categories |-> "full"]
      /\ meta = [c \in Categories |-> [i \in Ids |->
                   IF (c = "original" /\ i \in fetched)
                        \/ (c = "flipped" /\ i \in flipped)
                   THEN "complete" ELSE "absent"]]
      /\ img = [c \in Categories |-> [i \in Ids |->
                  IF /\ (c = "original" /\ i \in fetched)
                          \/ (c = "flipped" /\ i \in flipped)
                     /\ imageOf(i) # "none"
                  THEN "complete" ELSE "absent"]]
      /\ stray = [c \in Categories |-> {}]
      /\ pc = "prompt"
      /\ collectionSupply = totalSupply
      /\ lastScrapedToken = w
      /\ lastFlippedToken = MathMax(imageless \cup {0})
      /\ tokenId = w + 1
      /\ lastFlipped = w
      /\ pending = {}
      /\ writing = {}
      /\ runs = 1
      /\ exitReason = "running"
      /\ uriCalls = NoCalls
      /\ httpCalls = NoCalls
      /\ request = <<>>
      /\ flips = [i \in Ids |->
                    IF i \in flipped /\ i > MathMax(imageless \cup {0})
                    THEN 1 ELSE 0]
      /\ completedRun = 1
      /\ answer = "none"
      /\ imagesHash = <<>>
      /\ metadataBundle = <<>>

NextPublish ==
  \/ PromptContinue
  \/ PromptDecline
  \/ PublishImagesReturn
  \/ PublishMetadataReturn
  \/ PublishFail

SpecPublish == InitPublish /\ [][NextPublish]_vars

\* =====================================================================
\* Properties
\* =====================================================================
ScrapePcs ==
  {"scrape", "awaitURI", "awaitMetadata", "writingMetadata", "awaitImage",
   "streamingImage"}
FlipPcs == {"flip", "copying", "readingImage"}
PublishPcs == {"publishImages", "publishMetadata"}
AfterScrapePcs == FlipPcs \cup {"prompt", "done"} \cup PublishPcs

\* the metadata of id is known to carry an image field
HasImageField(id) == tokenData[id].image \notin {"none", "unknown"}

\* id is complete in the original tree: metadata written in full and, if it
\* names an image, the image written in full
CompleteOriginal(id) ==
  /\ meta["original"][id] = "complete"
  /\ HasImageField(id) => img["original"][id] = "complete"

\* C1: for a collection of size S and an empty output directory, when the
\* Original Fetch Stage of a run without failed fetch terminates, every id
\* of [0, S), id 0 included, has its metadata file and was fetched exactly
\* once.
C1_WalksEveryItemOnce ==
  (runs = 1 /\ pc \in AfterScrapePcs) =>
    \A id \in Ids :
      id < totalSupply =>
        (meta["original"][id] = "complete" /\ uriCalls[id] = 1)

\* the ids a single uninterrupted run over an empty directory walks
UninterruptedIds == {id \in Ids : id >= StartCursor(0) /\ id < totalSupply}

\* no locator seen so far is one that collectURILocation refuses
NoRefusedLocator ==
  \A id \in Ids : tokenData[id].uri # "ftp" /\ tokenData[id].image # "ftp"

\* C2: stop-and-resume is transparent: whatever kills and restarts came
\* before, once a run gets through the Original Fetch Stage the original
\* tree is the tree of a single uninterrupted run: the same ids, each with
\* complete metadata and, where the metadata names an image, a complete
\* image.
C2_ResumeTransparent ==
  (pc \in AfterScrapePcs /\ NoRefusedLocator) =>
    \A id \in Ids :
      IF id \in UninterruptedIds THEN CompleteOriginal(id)
      ELSE meta["original"][id] = "absent" /\ img["original"][id] = "absent"

\* C3: a resumed run never trusts an incomplete item: whenever the process
\* is gone (killed, failed fetch, failed classification), every id at or
\* below the watermark the tracker would return that has a metadata file
\* with an image field has its image written in full.
C3_WatermarkItemsHaveImage ==
  pc = "idle" =>
    \A id \in Ids :
      (/\ JsGE(Watermark("original"), id)
       /\ meta["original"][id] # "absent"
       /\ HasImageField(id)) => img["original"][id] = "complete"

\* C4: every artifact write is atomic: after a kill no file under its final
\* name <id>.json or images/<id>.png is partially written.
C4_NoPartialFileAfterKill ==
  (pc = "idle" /\ exitReason = "killed") =>
    \A c \in Categories, id \in Ids :
      meta[c][id] # "partial" /\ img[c][id] # "partial"

OriginalFilesSame(id) ==
  /\ meta'["original"][id] = meta["original"][id]
  /\ img'["original"][id] = img["original"][id]

FlippedFilesSame(id) ==
  /\ meta'["flipped"][id] = meta["flipped"][id]
  /\ img'["flipped"][id] = img["flipped"][id]

\* the larger of two integers
Larger(a, b) == IF a >= b THEN a ELSE b

\* the ids whose tokenURI was called by the stage so far: those after the
\* resume point and before the cursor, and the cursor once its call is out
FetchedSoFar(id) ==
  /\ id > lastScrapedToken
  /\ id < tokenId \/ (id = tokenId /\ pc \in ScrapePcs \ {"scrape"})

C5_CursorInvariant ==
  /\ \A id \in Ids :
       id >= totalSupply =>
         /\ uriCalls[id] = 0 /\ httpCalls[id] = 0
         /\ meta["original"][id] = "absent" /\ img["original"][id] = "absent"
  /\ pc \in ScrapePcs \cup AfterScrapePcs =>
       /\ tokenId >= lastScrapedToken + 1
       /\ \A id \in Ids : uriCalls[id] = (IF FetchedSoFar(id) THEN 1 ELSE 0)
  /\ pc \in AfterScrapePcs =>
       tokenId = Larger(lastScrapedToken + 1, collectionSupply)

C5_CursorStep ==
  /\ \A id \in Ids :
       ~OriginalFilesSame(id) =>
         pc \in ScrapePcs /\ id = tokenId /\ id < totalSupply
  /\ (pc \in ScrapePcs /\ pc' \in ScrapePcs) =>
       tokenId' \in {tokenId, tokenId + 1}
  /\ (pc = "scrape" /\ pc' \notin {"scrape", "idle"}) =>
       (pc' = "flip" <=> tokenId >= collectionSupply)

\* C5: within one run of the Original Fetch Stage the ids processed go up
\* by exactly one from resumePoint + 1 with none skipped, no id >= size is
\* ever fetched or written, and the stage terminates exactly when the
\* cursor reaches a value >= size (at once and without a write when
\* resumePoint + 1 >= size).
C5_FetchWalksInOrder == []C5_CursorInvariant /\ [][C5_CursorStep]_vars

\* a stage that started at id 1 and went through ids 1 and 2 has terminated
C5_Witness ==
  /\ pc = "flip"
  /\ lastScrapedToken = 0
  /\ tokenId = 3
  /\ uriCalls[1] = 1 /\ uriCalls[2] = 1
  /\ meta["original"][2] = "complete"

C6_NoCallBelowResumePoint ==
  pc \in ScrapePcs \cup AfterScrapePcs =>
    \A id \in Ids :
      /\ id <= lastScrapedToken => (uriCalls[id] = 0 /\ httpCalls[id] = 0)
      /\ id <= lastFlippedToken => flips[id] = 0

C6_NoRewriteBelowResumePoint ==
  pc \in ScrapePcs \cup AfterScrapePcs =>
    \A id \in Ids :
      /\ id <= lastScrapedToken => OriginalFilesSame(id)
      /\ id <= lastFlippedToken => FlippedFilesSame(id)

\* C6: a resumed run leaves completed items untouched: for every id at or
\* below the resume point of the run the Original Fetch Stage issues no
\* contract or HTTP call and rewrites neither file, and the Transform Stage
\* rewrites no flipped file of an id at or below the flipped resume point.
C6_CompletedItemsUntouched ==
  []C6_NoCallBelowResumePoint /\ [][C6_NoRewriteBelowResumePoint]_vars

\* a third run that resumed both trees has been through both stages
C6_Witness ==
  /\ pc = "prompt"
  /\ lastScrapedToken = 2
  /\ lastFlippedToken = 1
  /\ meta["flipped"][1] = "complete"

\* C7: in every reachable state the flipped tree holds no id that is not
\* present and complete in the original tree, and the flipped watermark
\* never exceeds the original watermark.
C7_FlippedWithinOriginal ==
  /\ \A id \in Ids :
       (meta["flipped"][id] # "absent" \/ img["flipped"][id] # "absent")
         => CompleteOriginal(id)
  /\ Watermark("flipped") <= Watermark("original")

\* C8: for an original watermark K and a flipped resume point F <= K the
\* Transform Stage processes exactly the ids F+1..K, each once, and is
\* terminal with its cursor at K+1.
C8_TransformReachesWatermark ==
  (pc = "prompt" /\ lastFlippedToken <= lastScrapedToken) =>
    /\ lastFlipped = lastScrapedToken + 1
    /\ \A id \in Ids :
         flips[id] = (IF lastFlippedToken < id /\ id <= lastScrapedToken
                      THEN 1 ELSE 0)

\* C9: after a single uninterrupted run over an empty directory every id
\* that the Original Fetch Stage persisted in that run is in the flipped
\* tree as well.
C9_TransformFollowsSameRun ==
  (runs = 1 /\ pc \in {"prompt", "done"}) =>
    \A id \in Ids :
      meta["original"][id] # "absent" => meta["flipped"][id] # "absent"

\* a stem that reads as an integer
IsInteger(stem) ==
  Len(stem) > 0 /\ \A i \in 1..Len(stem) : stem[i] \in DigitSet

\* the integers parseable from the metadata filenames among names
ParseableIds(names) ==
  {DecimalValue(SliceStem(f)) :
     f \in {g \in names : EndsWith(g, JsonExt) /\ IsInteger(SliceStem(g))}}

\* the resume point the tracker is to return for category c: the largest
\* parseable id, 0 without the directory tree or without metadata files
ClaimedResumePoint(c) ==
  LET ids == ParseableIds(ReadDir(c)) IN
    IF dirs[c] # "full" \/ ids = {} THEN 0
    ELSE CHOOSE m \in ids : \A x \in ids : x <= m

C10_TrackerStep ==
  /\ (pc = "setupOriginal" /\ pc' = "setupFlipped") =>
       lastScrapedToken' = ClaimedResumePoint("original")
  /\ (pc = "setupFlipped" /\ pc' = "scrape") =>
       lastFlippedToken' = ClaimedResumePoint("flipped")

\* C10: for every directory state the tracker returns the maximum integer
\* parseable from a metadata filename directly under the category root,
\* and 0 when the directory is absent or holds no metadata file.
C10_TrackerReturnsMaxId == [][C10_TrackerStep]_vars


\* the names of a directory without the metadata-extension names whose stem
\* is not an integer
WithoutMalformed(names) ==
  {f \in names : EndsWith(f, JsonExt) => IsInteger(SliceStem(f))}

C11_TrackerStep ==
  /\ (pc = "setupOriginal" /\ pc' = "setupFlipped") =>
       lastScrapedToken' =
         setupDirectoryByType(dirs["original"] = "full",
                              WithoutMalformed(ReadDir("original")))
  /\ (pc = "setupFlipped" /\ pc' = "scrape") =>
       lastFlippedToken' =
         setupDirectoryByType(dirs["flipped"] = "full",
                              WithoutMalformed(ReadDir("flipped")))

\* C11: a metadata-extension filename with a non-numeric or malformed stem
\* (abc.json) is silently skipped by the tracker: the result is the result
\* for the same directory without that file.
C11_MalformedNamesSkipped == [][C11_TrackerStep]_vars

\* the tracker has returned for category c and nothing was written since
JustSynced(c) ==
  \/ c = "original" /\ pc = "setupFlipped"
  \/ c = "flipped" /\ pc = "scrape"

\* the value the tracker has just returned for category c
SyncResult(c) == IF c = "original" THEN lastScrapedToken ELSE lastFlippedToken

\* a second call right after the first returns what the first returned
C12_SecondCallAgrees ==
  \A c \in Categories : JustSynced(c) => Watermark(c) = SyncResult(c)

\* a call changes nothing on disk but the directory tree of its category,
\* which it creates when images/ is missing, returning 0
C12_TrackerStep ==
  /\ meta' = meta /\ img' = img /\ stray' = stray
  /\ \A c \in Categories :
       dirs'[c] # dirs[c] =>
         /\ dirs[c] # "full" /\ dirs'[c] = "full"
         /\ JustSynced(c)' /\ SyncResult(c)' = 0

\* C12: the tracker is idempotent: two calls in a row on the same category
\* with no write in between return the same resume point, and the only
\* change a call makes on disk is the one-time creation of the category
\* tree when images/ is absent, in which case it returns 0.
C12_TrackerIdempotent == []C12_SecondCallAgrees /\ [][C12_TrackerStep]_vars

\* -------------------------------------------------- unrecognized locators
\* the sample strings that hold no content-addressed identifier and no
\* "https://"
UnrecognizedNames ==
  {n \in ResolverNames : /\ ~IPFSRegexMatch(URIText(n)).found
                         /\ ~Includes(URIText(n), HttpsMarker)}

Unrecognized(name) == name \in UnrecognizedNames

NoFileFor(id) ==
  \A c \in Categories : meta[c][id] = "absent" /\ img[c][id] = "absent"

NoImageFor(id) == \A c \in Categories : img[c][id] = "absent"

\* C13: a locator that is neither content-addressed nor holds "https://" is
\* never treated as one of the two: for such an item locator no HTTP fetch
\* is issued and no file is written for that id, for such an image locator
\* no image fetch is issued (the metadata request stays the only one) and
\* no image is written.
C13_UnrecognizedNeverFetched ==
  \A id \in Ids :
    tokenData[id] # Unknown =>
      /\ Unrecognized(tokenData[id].uri) =>
           httpCalls[id] = 0 /\ NoFileFor(id)
      /\ (tokenData[id].image # "none" /\ Unrecognized(tokenData[id].image)) =>
           httpCalls[id] <= 1 /\ NoImageFor(id)

\* a run has ended on an item whose locator is unrecognized
C13_Witness ==
  /\ pc = "idle" /\ exitReason = "unsupported"
  /\ \E id \in Ids :
       /\ tokenData[id] # Unknown /\ Unrecognized(tokenData[id].uri)
       /\ uriCalls[id] = 1

\* a run has ended on an item whose image locator is unrecognized
C13_ImageCaseReached ==
  /\ pc = "idle" /\ exitReason = "unsupported"
  /\ \E id \in Ids :
       /\ tokenData[id] # Unknown /\ tokenData[id].image # "none"
       /\ Unrecognized(tokenData[id].image)
       /\ meta["original"][id] = "complete" /\ httpCalls[id] = 1

\* ------------------------------------------- content-addressed identifiers
\* the base58 alphabet: letters and digits without 0, O, I, l
Base58Chars == CidChars \ {"O", "I", "l"}

\* t ends in nothing or in "/<digits>" after its first n characters
SuffixAfter(t, n) ==
  \/ Len(t) = n
  \/ /\ Len(t) >= n + 2
     /\ t[n + 1] = "/"
     /\ \A k \in (n + 2)..Len(t) : t[k] \in DigitSet

\* "Qm" followed by 43 further characters of the base58 alphabet, optionally
\* followed by "/<digits>"
IsBase58Identifier(t) ==
  /\ Len(t) >= 45
  /\ t[1] = "Q" /\ t[2] = "m"
  /\ \A k \in 3..45 : t[k] \in Base58Chars
  /\ SuffixAfter(t, 45)

\* "Qm" followed by 43 letters or non-zero digits and by one more character
\* that is none of O, I, l, optionally followed by "/<digits>"
IsMatchedIdentifier(t) ==
  /\ Len(t) >= 46
  /\ t[1] = "Q" /\ t[2] = "m"
  /\ \A k \in 3..45 : t[k] \in CidChars
  /\ t[46] \notin {"O", "I", "l"}
  /\ SuffixAfter(t, 46)

Spans(raw, IsId(_)) ==
  {sp \in (1..Len(raw)) \X (1..Len(raw)) :
     sp[1] <= sp[2] /\ IsId(SubSeq(raw, sp[1], sp[2]))}

\* the first identifier of raw, with the whole of its suffix
FirstIdentifier(raw, IsId(_)) ==
  LET spans == Spans(raw, IsId)
      first == CHOOSE sp \in spans : \A o \in spans : sp[1] <= o[1]
      last == CHOOSE sp \in spans :
                /\ sp[1] = first[1]
                /\ \A o \in spans : o[1] = first[1] => o[2] <= sp[2]
  IN SubSeq(raw, first[1], last[2])

\* what the resolver is to return for raw, and what is then requested
ResolvedAsClaimed(raw, IsId(_)) ==
  IF Spans(raw, IsId) # {}
  THEN /\ collectURILocation(raw) =
            [loc |-> "IPFS", URI |-> FirstIdentifier(raw, IsId)]
       /\ pc # "idle"
       /\ request = IPFSGateway \o FirstIdentifier(raw, IsId)
  ELSE Includes(raw, HttpsMarker) =>
       /\ collectURILocation(raw) = [loc |-> "HTTPS", URI |-> raw]
       /\ pc # "idle"
       /\ request = raw

\* the item locator, or the image field, has just been resolved
ItemJustResolved ==
  \/ pc = "awaitMetadata"
  \/ pc = "idle" /\ exitReason = "unsupported"
       /\ meta["original"][tokenId] = "absent"

ImageJustResolved ==
  \/ pc = "awaitImage"
  \/ pc = "idle" /\ exitReason = "unsupported"
       /\ meta["original"][tokenId] = "complete"

ResolverAsClaimed(IsId(_)) ==
  /\ ItemJustResolved =>
       ResolvedAsClaimed(URIText(tokenData[tokenId].uri), IsId)
  /\ ImageJustResolved =>
       ResolvedAsClaimed(URIText(tokenData[tokenId].image), IsId)

ResolvedTarget ==
  [n \in ResolverNames |->
     LET located == collectURILocation(URIText(n)) IN
       CASE located.loc = "IPFS" -> IPFSGateway \o located.URI
         [] located.loc = "HTTPS" -> URIText(n)
         [] OTHER -> <<>>]

\* the request in flight goes where the resolution of the string sends it
TargetAsResolved(name) == request = ResolvedTarget[name]

\* C15: the item locator and the image field of its metadata are resolved
\* independently and each sets its own fetch target: a content-addressed one
\* is requested from gateway + normalized id, a location-addressed one from
\* the URL as given, never through the gateway.
C15_IndependentFetchTargets ==
  /\ pc = "awaitMetadata" =>
       TargetAsResolved(tokenData[tokenId].uri)
  /\ pc \in {"awaitImage", "streamingImage"} =>
       TargetAsResolved(tokenData[tokenId].image)

\* item 1 (location-addressed locator, content-addressed image) is fetched;
\* the image of item 2 (content-addressed locator, location-addressed image)
\* is requested from its own URL
C15_Witness ==
  /\ pc = "awaitImage" /\ tokenId = 2
  /\ tokenData[1] = [uri |-> "https", image |-> "ipfs"]
  /\ img["original"][1] = "complete"
  /\ tokenData[2] = [uri |-> "ipfs", image |-> "https"]
  /\ request = HttpsURI

\* ------------------------------------------------------- items in flight
\* the flipped images whose write was started and has not completed
WritesInFlight == pending \cup writing

\* C16: operations are awaited strictly in sequence: every write started for
\* an item, the flipped image write included, has completed before an
\* operation for the next item begins and before the stage reports that it
\* has finished.
C16_OneItemInFlight ==
  /\ pc \in {"copying", "readingImage"} => WritesInFlight = {}
  /\ pc \in {"awaitURI", "awaitMetadata", "writingMetadata", "awaitImage",
             "streamingImage"} => WritesInFlight = {}
  /\ pc \in {"prompt", "done"} => WritesInFlight = {}

\* ------------------------------------------------ a second fetch stage
\* this run started after the fetch stage of an earlier run had finished
FetchCompletedEarlier == completedRun # 0 /\ runs > completedRun

C17_NoFetchIssued ==
  FetchCompletedEarlier => (uriCalls = NoCalls /\ httpCalls = NoCalls)

C17_DirectoryStep ==
  (completedRun # 0 /\ runs' > completedRun) =>
    /\ dirs'["original"] = dirs["original"]
    /\ meta'["original"] = meta["original"]
    /\ img'["original"] = img["original"]
    /\ stray'["original"] = stray["original"]

\* C17: running the Original Fetch Stage again, against the same contract
\* and output directory and after a first run of it completed, changes
\* nothing: no fetch is issued and the directory keeps its files and their
\* contents.
C17_SecondFetchChangesNothing ==
  []C17_NoFetchIssued /\ [][C17_DirectoryStep]_vars

\* the second run is through its fetch stage, the first one fetched two items
C17_Witness ==
  /\ runs = 2 /\ completedRun = 1
  /\ pc = "flip"
  /\ totalSupply = 3
  /\ meta["original"][1] = "complete" /\ meta["original"][2] = "complete"

\* --------------------------------------------------- collection inspector
\* contract.name() or contract.totalSupply() is awaited
InspectorPcs == {"collect", "awaitSupply"}

C19_NothingBeforeInspection ==
  pc \in InspectorPcs => (uriCalls = NoCalls /\ httpCalls = NoCalls)

C19_InspectorStep ==
  pc \in InspectorPcs =>
    /\ diskVars' = diskVars
    /\ uriCalls' = NoCalls /\ httpCalls' = NoCalls
    /\ exitReason' = "failed" => pc' = "idle"
    /\ pc' \notin InspectorPcs \cup {"idle"} =>
         /\ pc = "awaitSupply" /\ pc' = "setupOriginal"
         /\ collectionSupply' = totalSupply

\* C19: if the read of the collection name or of the total supply fails,
\* the run ends there: no output directory is created, no tokenURI call or
\* HTTP fetch is issued and no file is written; the run goes on to the
\* directories only when both reads have returned.
C19_FailedInspectionEndsRun ==
  []C19_NothingBeforeInspection /\ [][C19_InspectorStep]_vars

\* the first run has failed before any directory was created
C19_Witness ==
  /\ pc = "idle" /\ exitReason = "failed" /\ runs = 1
  /\ dirs = [c \in Categories |-> "none"]
  /\ uriCalls = NoCalls /\ httpCalls = NoCalls

\* ---------------------------------------------------------------- the gate
\* something of the Publish Stage has happened in this run
PublishActed ==
  pc \in PublishPcs \/ imagesHash # <<>> \/ metadataBundle # <<>>

C18_GateInvariant ==
  /\ pc = "prompt" => (FlipFinished(lastFlipped) /\ answer = "none")
  /\ pc \in FlipPcs \cup ScrapePcs => answer = "none"
  /\ PublishActed => answer = "yes"
  /\ answer = "no" => (pc = "idle" /\ exitReason = "declined")

C18_GateStep ==
  /\ answer' # answer =>
       \/ pc = "prompt"
       \/ answer' = "none" /\ runs' = runs + 1
  /\ (pc = "prompt" /\ pc' # "prompt") =>
       \/ answer' = "yes" /\ pc' \in PublishPcs \cup {"done"}
       \/ answer' = "no" /\ pc' = "idle" /\ exitReason' = "declined"
       \/ answer' = "none" /\ pc' = "idle" /\ exitReason' = "killed"

\* C18: the operator is asked only once the Transform Stage has come to its
\* end, the run waits for the answer, and a negative answer ends the run: no
\* action of the Publish Stage happens in a run in which the operator has not
\* answered yes.
C18_PublishOnlyAfterYes == []C18_GateInvariant /\ [][C18_GateStep]_vars

\* Phase A has returned in a run in which the operator answered yes
C18_Witness ==
  /\ pc = "publishMetadata" /\ answer = "yes"
  /\ imagesHash \in Hashes

\* ---------------------------------------------------------- publish order
\* the bundle submitted in Phase B
BundledFiles == metadataBundle[1]

C20_PhaseOrder ==
  /\ pc = "publishMetadata" => (imagesHash \in Hashes /\ metadataBundle # <<>>)
  /\ pc = "publishImages" => (imagesHash = <<>> /\ metadataBundle = <<>>)
  /\ metadataBundle # <<>> =>
       /\ imagesHash \in Hashes
       /\ DOMAIN BundledFiles = FlippedMetadataIds
       /\ \A id \in DOMAIN BundledFiles :
            BundledFiles[id].image = ImageRef(imagesHash, id)

\* C20: Phase B starts only after Phase A has returned imagesHash, and every
\* metadata file bundled in Phase B has its image field set to the reference
\* built from that imagesHash and the file's own id.
C20_PhaseBAfterPhaseA ==
  []C20_PhaseOrder
    /\ [][metadataBundle' # metadataBundle =>
            \/ pc = "publishImages" /\ imagesHash' \in Hashes
            \/ metadataBundle' = <<>>]_vars

\* the metadata of item 1, which had a content-addressed image, is bundled
\* under the hash H2
C20_Witness ==
  /\ pc = "publishMetadata"
  /\ imagesHash = <<"H", "2">>
  /\ tokenData[1] # Unknown /\ tokenData[1].image = "ipfs"
  /\ DOMAIN BundledFiles = {1}
  /\ BundledFiles[1].image = ImageRef(<<"H", "2">>, 1)

\* ------------------------------------------------------ the Phase B rewrite
Fields(json) == DOMAIN json

\* after is json with nothing changed but its image field
OnlyImageChanged(json, after) ==
  /\ Fields(after) = Fields(json)
  /\ \A f \in Fields(json) \ {"image"} : after[f] = json[f]

\* C21: the Phase B rewrite of a metadata mapping with the hash H and an id
\* changes only the image field, every other field is kept as it is, and
\* applying it again with the same H gives exactly what applying it once
\* gave.
C21_RewriteOnlyImageIdempotent ==
  metadataBundle # <<>> =>
    \A id \in DOMAIN BundledFiles :
      /\ OnlyImageChanged(MetadataOf(id), BundledFiles[id])
      /\ RewriteImage(BundledFiles[id], imagesHash, id) = BundledFiles[id]

\* two files are bundled, one that had an image field and one that had none
C21_Witness ==
  /\ pc = "publishMetadata"
  /\ DOMAIN BundledFiles = {1, 2}
  /\ MetadataOf(1).image = IpfsURI
  /\ MetadataOf(2).image = <<>>
  /\ BundledFiles[1].name = <<"1">>

\* --------------------------------------------------------- contiguous ids
\* the ids that have a metadata file, whole or not, in the tree of c
MetadataIds(c) == {id \in Ids : meta[c][id] # "absent"}

\* S has no gap: every id between two of its ids is in it
Contiguous(S) ==
  \A a \in S, b \in Ids, d \in S : (a < b /\ b < d) => b \in S

\* the largest id of S, 0 for none
Top(S) == IF S = {} THEN 0 ELSE CHOOSE m \in S : \A x \in S : x <= m

C22_NoGaps == \A c \in Categories : Contiguous(MetadataIds(c))

\* the last item a stage has started to write is its cursor, or the one
\* before it while the cursor's own metadata file is not begun
C22_LastStarted ==
  /\ pc \in {"scrape", "awaitURI", "awaitMetadata"} =>
       Top(MetadataIds("original")) = tokenId - 1
  /\ pc \in {"writingMetadata", "awaitImage", "streamingImage"} =>
       Top(MetadataIds("original")) = tokenId
  /\ pc = "flip" => Top(MetadataIds("flipped")) = lastFlipped - 1
  /\ pc \in {"copying", "readingImage"} =>
       Top(MetadataIds("flipped")) = lastFlipped

C22_TrackerStep ==
  /\ (pc = "setupOriginal" /\ pc' = "setupFlipped") =>
       lastScrapedToken' = Top(MetadataIds("original"))
  /\ (pc = "setupFlipped" /\ pc' = "scrape") =>
       lastFlippedToken' = Top(MetadataIds("flipped"))

\* C22: from an empty output directory, after any runs, kills and resumed
\* runs, the ids that have a metadata file in the original tree form one
\* range with no gaps, so that the largest id the tracker finds is the number
\* of the last item started; the same holds for the flipped tree.
C22_MetadataIdsContiguous ==
  [](C22_NoGaps /\ C22_LastStarted) /\ [][C22_TrackerStep]_vars

\* the third run is gone after a kill, with two items in the original tree
\* and one in the flipped tree
C22_Witness ==
  /\ runs = 3 /\ pc = "idle" /\ exitReason = "killed"
  /\ MetadataIds("original") = {1, 2}
  /\ MetadataIds("flipped") = {1}

\* ------------------------------------------------- items without an image
\* the Transform Stage is at an item whose metadata is copied and whose
\* metadata has no image field
AtImagelessItem ==
  /\ pc = "readingImage"
  /\ meta["flipped"][lastFlipped] = "complete"
  /\ tokenData[lastFlipped] # Unknown
  /\ tokenData[lastFlipped].image = "none"

C23_ImagelessStep ==
  (AtImagelessItem /\ pc' # pc /\ exitReason' # "killed") =>
    /\ pc' = "flip"
    /\ lastFlipped' = lastFlipped + 1

\* C23: an item whose metadata has no image field does not stop the
\* Transform Stage: its metadata is copied to the flipped tree and the stage
\* advances past it, on to the later ids and to its end.
C23_ImagelessItemPassed == [][C23_ImagelessStep]_vars
====
